---- MODULE Spec2Model ----
(***************************************************************************)
(* Model of the Arduino sketch memory_test_functionscheck_3.ino: setup()   *)
(* followed by the endless repetition of loop().  The sketch is one        *)
(* thread; every call it makes (pinMode, digitalWrite, delay,              *)
(* Serial.begin, timer2.setup, the mem calls) blocks until it returns.     *)
(* The external libraries are opaque: a call is an event that starts, is   *)
(* in progress, and returns with an outcome the sketch never looks at.     *)
(* Only the sketch's own writes to ADCSRA are modelled.                    *)
(***************************************************************************)
EXTENDS Integers, Sequences, FiniteSets

\* ---- bounds of the model ------------------------------------------------
MaxLog   == 30   \* the call history keeps the first MaxLog events
MaxCount == 10   \* call counters saturate at MaxCount

\* ---- constants of the sketch and of the platform headers ----------------
ledPin  == 13
FASTADC == 1
LOW     == 0
HIGH    == 1
OUTPUT  == 1
INPUT   == 0
ADPS0   == 0
ADPS1   == 1
ADPS2   == 2
BlinkCount    == 4
BlinkDelay    == 200
SerialBaud    == 115200
SetupDelay    == 1000
LoopDelay     == 20
WriteZeroArgs == <<0, 0, 20, 1, 40>>

\* ---- events: <<operation, arguments>> -----------------------------------
Ev(op, args) == <<op, args>>
OpOf(ev)     == ev[1]
ArgsOf(ev)   == ev[2]

MemOps  == {"writeZERO", "writeONE", "camread"}
InitOps == {"timer2.setup", "initPinMode", "initContentAddress"}
LibOps  == MemOps \cup InitOps
Ops     == LibOps \cup {"pinMode", "digitalWrite", "delay", "Serial.begin",
                        "Serial.print", "sbi", "cbi"}

\* what an opaque call may hand back; the core calls return nothing
Outcomes(op) == IF op \in LibOps THEN {"ok", "fail"} ELSE {"void"}

NoEvent == Ev("none", <<>>)

Min(a, b) == IF a < b THEN a ELSE b

\* ---- 8-bit register arithmetic (the cbi / sbi macros) -------------------
RECURSIVE Pow2(_)
Pow2(n) == IF n = 0 THEN 1 ELSE 2 * Pow2(n - 1)

Bit(v, b) == (v \div Pow2(b)) % 2

RECURSIVE BitAndFrom(_, _, _)
BitAndFrom(a, b, k) ==
  IF k = 8 THEN 0
  ELSE (IF Bit(a, k) = 1 /\ Bit(b, k) = 1 THEN Pow2(k) ELSE 0) + BitAndFrom(a, b, k + 1)
BitAnd(a, b) == BitAndFrom(a, b, 0)

RECURSIVE BitOrFrom(_, _, _)
BitOrFrom(a, b, k) ==
  IF k = 8 THEN 0
  ELSE (IF Bit(a, k) = 1 \/ Bit(b, k) = 1 THEN Pow2(k) ELSE 0) + BitOrFrom(a, b, k + 1)
BitOr(a, b) == BitOrFrom(a, b, 0)

BitNot(a) == 255 - a

BV(b) == Pow2(b)

cbi_nocomplement(sfr, b) == BitAnd(sfr, BV(b))
cbi(sfr, b) == BitAnd(sfr, BitNot(BV(b)))
sbi(sfr, b) == BitOr(sfr, BV(b))

\* ---- state ----------------------------------------------------------------
VARIABLES
  pc,         \* line of the sketch the thread executes next
  i,          \* loop variable of the blink loop
  ledMode,    \* mode of pin 13
  led,        \* level written to pin 13
  ADCSRA,     \* ADC control and status register A
  ADCSRA0,    \* value of ADCSRA when setup() was entered
  serialBaud, \* 0 while the serial port is closed, else its baud rate
  active,     \* blocking operations in progress
  log,        \* the first MaxLog events, in program order
  ncalls,     \* per operation, how often it was started (saturating)
  iterOps,    \* memory operations started in the current run of loop()
  lastDone,   \* the operation that returned last
  lastRet     \* what the last library call returned

vars == <<pc, i, ledMode, led, ADCSRA, ADCSRA0, serialBaud, active, log,
          ncalls, iterOps, lastDone, lastRet>>

Init ==
  /\ pc = "L25"
  /\ i = 0
  /\ ledMode = INPUT
  /\ led = LOW
  /\ ADCSRA \in 0..255
  /\ ADCSRA0 = ADCSRA
  /\ serialBaud = 0
  /\ active = {}
  /\ log = <<>>
  /\ ncalls = [op \in Ops |-> 0]
  /\ iterOps = 0
  /\ lastDone = NoEvent
  /\ lastRet = "none"

\* ---- helpers ----------------------------------------------------------------
Idle == active = {}

Record(ev) ==
  /\ log' = IF Len(log) < MaxLog THEN Append(log, ev) ELSE log
  /\ ncalls' = [ncalls EXCEPT ![OpOf(ev)] = Min(@ + 1, MaxCount)]

\* a blocking call made from line `at`; the thread resumes at `next`
Call(at, ev, next) ==
  /\ pc = at
  /\ Idle
  /\ pc' = next
  /\ active' = {ev}
  /\ Record(ev)
  /\ iterOps' = IF OpOf(ev) \in MemOps THEN Min(iterOps + 1, MaxCount) ELSE iterOps
  /\ UNCHANGED <<lastDone, lastRet>>

\* a step of the sketch's own control flow from `at` to `next`
Step(at, next) ==
  /\ pc = at
  /\ Idle
  /\ pc' = next
  /\ UNCHANGED <<active, lastDone, lastRet>>

AfterTimer == IF FASTADC # 0 THEN "L36" ELSE "L40"

\* ---- setup() ----------------------------------------------------------------
Setup_pinMode ==
  /\ Call("L25", Ev("pinMode", <<ledPin, OUTPUT>>), "L26init")
  /\ ledMode' = OUTPUT
  /\ UNCHANGED <<i, led, ADCSRA, ADCSRA0, serialBaud>>

Blink_init ==
  /\ Step("L26init", "L26test")
  /\ i' = 0
  /\ UNCHANGED <<ledMode, led, ADCSRA, ADCSRA0, serialBaud, log, ncalls, iterOps>>

Blink_test_offbyone ==
  /\ Step("L26test", IF i <= BlinkCount THEN "L27" ELSE "L32")
  /\ UNCHANGED <<i, ledMode, led, ADCSRA, ADCSRA0, serialBaud, log, ncalls, iterOps>>

Blink_test ==
  /\ Step("L26test", IF i < BlinkCount THEN "L27" ELSE "L32")
  /\ UNCHANGED <<i, ledMode, led, ADCSRA, ADCSRA0, serialBaud, log, ncalls, iterOps>>

Blink_high ==
  /\ Call("L27", Ev("digitalWrite", <<ledPin, HIGH>>), "L28")
  /\ led' = HIGH
  /\ UNCHANGED <<i, ledMode, ADCSRA, ADCSRA0, serialBaud>>

Blink_delayHigh ==
  /\ Call("L28", Ev("delay", <<BlinkDelay>>), "L29")
  /\ UNCHANGED <<i, ledMode, led, ADCSRA, ADCSRA0, serialBaud>>

Blink_low ==
  /\ Call("L29", Ev("digitalWrite", <<ledPin, LOW>>), "L30")
  /\ led' = LOW
  /\ UNCHANGED <<i, ledMode, ADCSRA, ADCSRA0, serialBaud>>

Blink_delayLow ==
  /\ Call("L30", Ev("delay", <<BlinkDelay>>), "L26inc")
  /\ UNCHANGED <<i, ledMode, led, ADCSRA, ADCSRA0, serialBaud>>

Blink_inc_stuck ==
  /\ Step("L26inc", "L26test")
  /\ i' = i
  /\ UNCHANGED <<ledMode, led, ADCSRA, ADCSRA0, serialBaud, log, ncalls, iterOps>>

Blink_inc ==
  /\ Step("L26inc", "L26test")
  /\ i' = i + 1
  /\ UNCHANGED <<ledMode, led, ADCSRA, ADCSRA0, serialBaud, log, ncalls, iterOps>>

Setup_SerialBegin_9600 ==
  /\ Call("L32", Ev("Serial.begin", <<9600>>), "L33")
  /\ serialBaud' = 9600
  /\ UNCHANGED <<i, ledMode, led, ADCSRA, ADCSRA0>>

Setup_SerialBegin ==
  /\ Call("L32", Ev("Serial.begin", <<SerialBaud>>), "L33")
  /\ serialBaud' = SerialBaud
  /\ UNCHANGED <<i, ledMode, led, ADCSRA, ADCSRA0>>

Setup_timer2 ==
  /\ Call("L33", Ev("timer2.setup", <<>>), AfterTimer)
  /\ UNCHANGED <<i, ledMode, led, ADCSRA, ADCSRA0, serialBaud>>

\* a register write of the sketch itself: it does not block
RegWrite(at, ev, next, val) ==
  /\ Step(at, next)
  /\ Record(ev)
  /\ ADCSRA' = val
  /\ UNCHANGED <<i, ledMode, led, ADCSRA0, serialBaud, iterOps>>

Setup_sbiADPS2 == RegWrite("L36", Ev("sbi", <<ADPS2>>), "L37", sbi(ADCSRA, ADPS2))

Setup_cbiADPS1 == RegWrite("L37", Ev("cbi", <<ADPS1>>), "L38", cbi(ADCSRA, ADPS1))

Setup_cbiADPS0 == RegWrite("L38", Ev("cbi", <<ADPS0>>), "L40", cbi(ADCSRA, ADPS0))

Setup_delay ==
  /\ Call("L40", Ev("delay", <<SetupDelay>>), "L41")
  /\ UNCHANGED <<i, ledMode, led, ADCSRA, ADCSRA0, serialBaud>>

Setup_initPinMode_swapped ==
  /\ Call("L41", Ev("initContentAddress", <<>>), "L42")
  /\ UNCHANGED <<i, ledMode, led, ADCSRA, ADCSRA0, serialBaud>>

Setup_initPinMode ==
  /\ Call("L41", Ev("initPinMode", <<>>), "L42")
  /\ UNCHANGED <<i, ledMode, led, ADCSRA, ADCSRA0, serialBaud>>

Setup_initContentAddress_skipped ==
  /\ Step("L42", "L45")
  /\ UNCHANGED <<i, ledMode, led, ADCSRA, ADCSRA0, serialBaud, log, ncalls, iterOps>>

Setup_initContentAddress ==
  /\ Call("L42", Ev("initContentAddress", <<>>), "L45")
  /\ UNCHANGED <<i, ledMode, led, ADCSRA, ADCSRA0, serialBaud>>

\* setup() returns; the core then calls loop() for ever
Setup_return ==
  /\ Step("L45", "L47")
  /\ UNCHANGED <<i, ledMode, led, ADCSRA, ADCSRA0, serialBaud, log, ncalls, iterOps>>

\* ---- loop() -----------------------------------------------------------------
Loop_enter ==
  /\ Step("L47", "L50")
  /\ iterOps' = 0
  /\ UNCHANGED <<i, ledMode, led, ADCSRA, ADCSRA0, serialBaud, log, ncalls>>

WriteZeroEv == Ev("writeZERO", WriteZeroArgs)

Loop_writeZERO_asONE ==
  /\ Call("L50", Ev("writeONE", WriteZeroArgs), "L54")
  /\ UNCHANGED <<i, ledMode, led, ADCSRA, ADCSRA0, serialBaud>>

Loop_writeZERO ==
  /\ Call("L50", WriteZeroEv, "L54")
  /\ UNCHANGED <<i, ledMode, led, ADCSRA, ADCSRA0, serialBaud>>

Loop_delay_nowait ==
  /\ pc = "L54"
  /\ pc' = "L55"
  /\ active' = active \cup {Ev("delay", <<LoopDelay>>)}
  /\ Record(Ev("delay", <<LoopDelay>>))
  /\ UNCHANGED <<i, ledMode, led, ADCSRA, ADCSRA0, serialBaud, iterOps, lastDone, lastRet>>

Loop_delay_retry ==
  IF lastRet = "fail"
  THEN /\ Step("L54", "L50")
       /\ UNCHANGED <<i, ledMode, led, ADCSRA, ADCSRA0, serialBaud, log, ncalls, iterOps>>
  ELSE /\ Call("L54", Ev("delay", <<LoopDelay>>), "L55")
       /\ UNCHANGED <<i, ledMode, led, ADCSRA, ADCSRA0, serialBaud>>

Loop_delay ==
  /\ Call("L54", Ev("delay", <<LoopDelay>>), "L55")
  /\ UNCHANGED <<i, ledMode, led, ADCSRA, ADCSRA0, serialBaud>>

Loop_return ==
  /\ Step("L55", "L47")
  /\ UNCHANGED <<i, ledMode, led, ADCSRA, ADCSRA0, serialBaud, log, ncalls, iterOps>>

\* ---- the operation in progress returns ---------------------------------------
Return ==
  /\ active # {}
  /\ \E ev \in active : \E r \in Outcomes(OpOf(ev)) :
       /\ active' = active \ {ev}
       /\ lastDone' = ev
       /\ lastRet' = IF OpOf(ev) \in LibOps THEN r ELSE lastRet
  /\ UNCHANGED <<pc, i, ledMode, led, ADCSRA, ADCSRA0, serialBaud, log, ncalls, iterOps>>

Next ==
  \/ Setup_pinMode
  \/ Blink_init
  \/ Blink_test
  \/ Blink_high
  \/ Blink_delayHigh
  \/ Blink_low
  \/ Blink_delayLow
  \/ Blink_inc
  \/ Setup_SerialBegin
  \/ Setup_timer2
  \/ Setup_sbiADPS2
  \/ Setup_cbiADPS1
  \/ Setup_cbiADPS0
  \/ Setup_delay
  \/ Setup_initPinMode
  \/ Setup_initContentAddress
  \/ Setup_return
  \/ Loop_enter
  \/ Loop_writeZERO
  \/ Loop_delay
  \/ Loop_return
  \/ Return

Spec == Init /\ [][Next]_vars

\* the processor keeps executing and every call returns
LiveSpec == Init /\ [][Next]_vars /\ WF_vars(Next)

TypeOK ==
  /\ i \in 0..BlinkCount
  /\ led \in {LOW, HIGH}
  /\ ledMode \in {INPUT, OUTPUT}
  /\ ADCSRA \in 0..255
  /\ Len(log) <= MaxLog
  /\ \A op \in Ops : ncalls[op] \in 0..MaxCount

\* ---- properties -------------------------------------------------------------
SetupFinished == pc \in {"L47", "L50", "L54", "L55"}
ADCConfigured == pc \in {"L40", "L41", "L42", "L45"} \/ SetupFinished

Idx == 1..Len(log)
Occurs(op) == \E k \in Idx : OpOf(log[k]) = op
CountBefore(op, k) == Cardinality({j \in 1..(k - 1) : OpOf(log[j]) = op})
\* every opsA event of the history lies before every opsB event, and an
\* opsB event is there only if an opsA event is
Before(opsA, opsB) ==
  /\ \A j, k \in Idx : (OpOf(log[j]) \in opsA /\ OpOf(log[k]) \in opsB) => j < k
  /\ \A k \in Idx : OpOf(log[k]) \in opsB => \E j \in 1..(k - 1) : OpOf(log[j]) \in opsA
IsLedWrite(ev) == OpOf(ev) = "digitalWrite"
LedWrites == SelectSeq(log, IsLedWrite)

\* C1: no memory operation (writeZERO, writeONE, camread) is started before
\* setup() has finished: when one has been started, setup() has returned and
\* before it the LED was blinked 4 times, the serial port opened,
\* timer2.setup() called, the ADC prescaler written, and initPinMode and
\* initContentAddress called.
C1_MemOpsOnlyAfterSetup ==
  /\ (\E op \in MemOps : ncalls[op] > 0) =>
       /\ SetupFinished
       /\ serialBaud # 0
       /\ \A op \in {"Serial.begin", "timer2.setup", "sbi", "cbi",
                     "initPinMode", "initContentAddress"} : ncalls[op] >= 1
  /\ \A k \in Idx : OpOf(log[k]) \in MemOps =>
       /\ CountBefore("digitalWrite", k) = 8
       /\ CountBefore("Serial.begin", k) = 1
       /\ CountBefore("timer2.setup", k) = 1
       /\ CountBefore("sbi", k) = 1
       /\ CountBefore("cbi", k) = 2
       /\ CountBefore("initPinMode", k) = 1
       /\ CountBefore("initContentAddress", k) = 1

C1_Witness == ncalls["writeZERO"] = 1 /\ active = {WriteZeroEv}

C3_SetupEndsLoopForever ==
  /\ <>SetupFinished
  /\ []<>(active = {WriteZeroEv})
  /\ [](ENABLED Next)

C3_Witness == SetupFinished /\ i = 4 /\ ncalls["writeZERO"] >= 3 /\ active = {WriteZeroEv}

\* C4: the serial port is opened exactly once, at 115200 baud, in setup()
\* and before any call into the timer or memory library; the sketch never
\* reopens it, never changes the baud rate and never writes to it.
C4_SerialOpenedOnce ==
  /\ ncalls["Serial.begin"] <= 1
  /\ serialBaud = IF ncalls["Serial.begin"] = 1 THEN 115200 ELSE 0
  /\ (\E op \in LibOps : ncalls[op] > 0) => ncalls["Serial.begin"] = 1
  /\ SetupFinished => ncalls["Serial.begin"] = 1
  /\ Before({"Serial.begin"}, LibOps)
  /\ \A k \in Idx : OpOf(log[k]) = "Serial.begin" => ArgsOf(log[k]) = <<115200>>
  /\ ncalls["Serial.print"] = 0

C4_Witness == serialBaud = 115200 /\ ncalls["Serial.begin"] = 1 /\ ncalls["writeZERO"] >= 3

\* C5: one thread, blocking calls: at most one operation is in progress at a
\* time, the sketch moves on only when it has returned, and between two
\* consecutive writeZERO calls a delay of 20 ms has run to completion.
C5_OneAtATimeDelayBetweenWrites ==
  /\ Cardinality(active) <= 1
  /\ (pc = "L50" /\ ncalls["writeZERO"] > 0) => (Idle /\ lastDone = <<"delay", <<20>>>>)
  /\ \A j, k \in Idx :
       (j < k /\ OpOf(log[j]) = "writeZERO" /\ OpOf(log[k]) = "writeZERO") =>
         \E m \in (j + 1)..(k - 1) : log[m] = <<"delay", <<20>>>>

C5_Witness == pc = "L50" /\ ncalls["writeZERO"] >= 2 /\ lastDone = <<"delay", <<20>>>>

\* C6: no checking of outcomes, no retry, no recovery: timer2.setup(),
\* initPinMode() and initContentAddress() are each called exactly once in the
\* whole execution, never from loop(), and each run of loop() calls writeZERO
\* exactly once, whatever the previous call returned.
C6_NoRetryNoRecovery ==
  /\ \A op \in InitOps : ncalls[op] <= 1
  /\ SetupFinished => \A op \in InitOps : ncalls[op] = 1
  /\ pc \in {"L54", "L55"} => iterOps = 1
  /\ (pc = "L54" /\ Idle) => lastDone = WriteZeroEv
  /\ (pc = "L55" /\ Idle) => lastDone = <<"delay", <<20>>>>

C6_Witness ==
  /\ pc = "L55"
  /\ lastRet = "fail"
  /\ iterOps = 1
  /\ ncalls["writeZERO"] >= 2
  /\ \A op \in InitOps : ncalls[op] = 1

\* C7: the order of setup(): pinMode(13, OUTPUT) before the first LED write;
\* all LED writes before Serial.begin; Serial.begin before timer2.setup();
\* timer2.setup() before the ADC prescaler writes; delay(1000) between the
\* ADC writes and initPinMode(); initPinMode() before initContentAddress().
C7_SetupOrder ==
  /\ Before({"pinMode"}, {"digitalWrite"})
  /\ \A k \in Idx : OpOf(log[k]) = "pinMode" => ArgsOf(log[k]) = <<13, 1>>
  /\ Before({"digitalWrite"}, {"Serial.begin"})
  /\ \A k \in Idx : OpOf(log[k]) = "Serial.begin" => CountBefore("digitalWrite", k) = 8
  /\ Before({"Serial.begin"}, {"timer2.setup"})
  /\ Before({"timer2.setup"}, {"sbi", "cbi"})
  /\ Before({"sbi", "cbi"}, {"initPinMode"})
  /\ \A k \in Idx : OpOf(log[k]) = "initPinMode" =>
       /\ CountBefore("sbi", k) + CountBefore("cbi", k) = 3
       /\ k > 2
       /\ log[k - 1] = <<"delay", <<1000>>>>
       /\ OpOf(log[k - 2]) \in {"sbi", "cbi"}
  /\ Before({"initPinMode"}, {"initContentAddress"})

C7_Witness == pc = "L45" /\ Idle /\ Len(log) = 25 /\ Occurs("initContentAddress")

\* C8: setup() drives pin 13 through exactly 4 HIGH-then-LOW cycles,
\* alternating and starting HIGH, each level followed by a 200 ms delay; the
\* pin is LOW when setup() ends and stays LOW, loop() never writes it.
C8_LedBlinksFourTimes ==
  /\ ncalls["digitalWrite"] <= 8
  /\ Len(LedWrites) = ncalls["digitalWrite"]
  /\ \A k \in 1..Len(LedWrites) :
       LedWrites[k] = <<"digitalWrite", <<13, IF k % 2 = 1 THEN 1 ELSE 0>>>>
  /\ \A k \in Idx : (OpOf(log[k]) = "digitalWrite" /\ k < Len(log)) =>
       log[k + 1] = <<"delay", <<200>>>>
  /\ led = IF ncalls["digitalWrite"] % 2 = 1 THEN 1 ELSE 0
  /\ (pc = "L32" \/ SetupFinished) => (ncalls["digitalWrite"] = 8 /\ led = 0)
  /\ ncalls["digitalWrite"] > 0 => ledMode = 1

C8_Witness == SetupFinished /\ ncalls["writeZERO"] >= 2 /\ Len(LedWrites) = 8 /\ led = 0

\* C9: with FASTADC on, whatever ADCSRA held on entry, after the prescaler
\* writes ADPS2 = 1, ADPS1 = 0, ADPS0 = 0 and bits 3..7 are as on entry; the
\* sketch writes ADCSRA exactly three times and never again.
C9_PrescalerSixteen ==
  /\ ncalls["sbi"] <= 1
  /\ ncalls["cbi"] <= 2
  /\ ADCConfigured =>
       /\ ADCSRA % 8 = 4
       /\ ADCSRA \div 8 = ADCSRA0 \div 8
       /\ ncalls["sbi"] = 1
       /\ ncalls["cbi"] = 2
  /\ pc \in {"L25", "L26init", "L26test", "L27", "L28", "L29", "L30", "L26inc",
             "L32", "L33", "L36"} => ADCSRA = ADCSRA0

C9_Witness == SetupFinished /\ ADCSRA0 = 131 /\ ADCSRA = 132 /\ ncalls["writeZERO"] >= 1

====
